---- MODULE Spec2Model ----
(***************************************************************************)
(* Model of archinstall/lib/models/users.py: the PasswordStrength          *)
(* classifier and the User configuration parser.  Both are pure functions; *)
(* every action is one call of one function, recording the arguments of    *)
(* the call in `args` and what it returned in `ret`.                       *)
(***************************************************************************)
EXTENDS Integers, Sequences, FiniteSets, TLC

VARIABLES pc, op, args, ret

vars == <<pc, op, args, ret>>

\* ------------------------------------------------------------------------
\* Bounds of the model
\* ------------------------------------------------------------------------
MaxLength == 20   \* longest password length handed to the classifier
MaxHead == 3      \* freely chosen leading characters of a password
MaxUsers == 2     \* entries of a current-shape users list
MaxLegacy == 2    \* keys of a legacy-shape mapping

\* ------------------------------------------------------------------------
\* PasswordStrength
\* ------------------------------------------------------------------------
VERY_WEAK == "very weak"
WEAK == "weak"
MODERATE == "moderate"
STRONG == "strong"

PasswordStrength == {VERY_WEAK, WEAK, MODERATE, STRONG}

\* PasswordStrength.color
color_weak_yellow(self) ==
    CASE self = VERY_WEAK -> "red"
      [] self = WEAK -> "yellow"
      [] self = MODERATE -> "yellow"
      [] self = STRONG -> "green"

color(self) ==
    CASE self = VERY_WEAK -> "red"
      [] self = WEAK -> "red"
      [] self = MODERATE -> "yellow"
      [] self = STRONG -> "green"

\* Representative characters, one per combination of the str predicates the
\* classifier consults: '7', 'A', 'a', '!', U+4E2D (a caseless letter) and
\* U+24B6 (CIRCLED LATIN CAPITAL LETTER A: uppercase but not alphanumeric).
Characters == {"7", "A", "a", "!", "U+4E2D", "U+24B6"}

isdigit(character) == character = "7"
isupper(character) == character \in {"A", "U+24B6"}
islower(character) == character = "a"
isalnum(character) == character \in {"7", "A", "a", "U+4E2D"}

\* One arm of a `match length:` statement: its guard, the value it returns
\* and the line of the return.
Guard(arm, num) ==
    CASE arm.guard[1] = "ge" -> arm.guard[2] <= num
      [] arm.guard[1] = "between" -> arm.guard[2] <= num /\ num <= arm.guard[3]
      [] arm.guard[1] = "le" -> num <= arm.guard[2]

\* if digit and upper and lower and symbol: match length
ArmsA ==
    << [guard |-> <<"ge", 13>>, value |-> STRONG, line |-> 65],
       [guard |-> <<"between", 11, 12>>, value |-> MODERATE, line |-> 67],
       [guard |-> <<"between", 7, 10>>, value |-> WEAK, line |-> 69],
       [guard |-> <<"le", 6>>, value |-> VERY_WEAK, line |-> 71] >>

\* elif digit and upper and lower: match length
ArmsB_late_strong ==
    << [guard |-> <<"ge", 17>>, value |-> STRONG, line |-> 75],
       [guard |-> <<"between", 11, 16>>, value |-> MODERATE, line |-> 77],
       [guard |-> <<"between", 7, 10>>, value |-> WEAK, line |-> 79],
       [guard |-> <<"le", 6>>, value |-> VERY_WEAK, line |-> 81] >>

ArmsB ==
    << [guard |-> <<"ge", 14>>, value |-> STRONG, line |-> 75],
       [guard |-> <<"between", 11, 13>>, value |-> MODERATE, line |-> 77],
       [guard |-> <<"between", 7, 10>>, value |-> WEAK, line |-> 79],
       [guard |-> <<"le", 6>>, value |-> VERY_WEAK, line |-> 81] >>

\* elif upper and lower: match length
ArmsC_gap ==
    << [guard |-> <<"ge", 15>>, value |-> STRONG, line |-> 85],
       [guard |-> <<"between", 13, 14>>, value |-> MODERATE, line |-> 87],
       [guard |-> <<"between", 7, 11>>, value |-> WEAK, line |-> 89],
       [guard |-> <<"le", 6>>, value |-> VERY_WEAK, line |-> 91] >>

ArmsC ==
    << [guard |-> <<"ge", 15>>, value |-> STRONG, line |-> 85],
       [guard |-> <<"between", 12, 14>>, value |-> MODERATE, line |-> 87],
       [guard |-> <<"between", 7, 11>>, value |-> WEAK, line |-> 89],
       [guard |-> <<"le", 6>>, value |-> VERY_WEAK, line |-> 91] >>

\* elif lower or upper: match length
ArmsD_off_by_one ==
    << [guard |-> <<"ge", 18>>, value |-> STRONG, line |-> 95],
       [guard |-> <<"between", 14, 17>>, value |-> MODERATE, line |-> 97],
       [guard |-> <<"between", 8, 13>>, value |-> WEAK, line |-> 99],
       [guard |-> <<"le", 8>>, value |-> VERY_WEAK, line |-> 101] >>

ArmsD ==
    << [guard |-> <<"ge", 18>>, value |-> STRONG, line |-> 95],
       [guard |-> <<"between", 14, 17>>, value |-> MODERATE, line |-> 97],
       [guard |-> <<"between", 9, 13>>, value |-> WEAK, line |-> 99],
       [guard |-> <<"le", 8>>, value |-> VERY_WEAK, line |-> 101] >>

\* The conditions of the if / elif chain, in the order they are tested.
CondA(digit, upper, lower, symbol) == digit /\ upper /\ lower /\ symbol
CondB(digit, upper, lower, symbol) == digit /\ upper /\ lower
CondC(digit, upper, lower, symbol) == upper /\ lower

CondD_or_digit(digit, upper, lower, symbol) == lower \/ upper \/ digit

CondD(digit, upper, lower, symbol) == lower \/ upper

\* The arms of the match statement of the branch the chain selects; the
\* empty sequence when no condition holds.
SelectedArms(digit, upper, lower, symbol) ==
    IF CondA(digit, upper, lower, symbol) THEN ArmsA
    ELSE IF CondB(digit, upper, lower, symbol) THEN ArmsB
    ELSE IF CondC(digit, upper, lower, symbol) THEN ArmsC
    ELSE IF CondD(digit, upper, lower, symbol) THEN ArmsD
    ELSE << >>

\* The indices of the arms whose guard holds; a match statement runs the
\* first of them, and runs none when the set is empty.
MatchingArms(arms, num) == {i \in 1..Len(arms) : Guard(arms[i], num)}

\* The final statement of _check_password_strength, reached when no
\* condition of the chain holds or when a match statement runs no arm.
FallThrough == [value |-> VERY_WEAK, line |-> 103]

\* PasswordStrength._check_password_strength: the value returned and the
\* line of the return statement that returned it.
_check_password_strength_return(digit, upper, lower, symbol, length) ==
    LET arms == SelectedArms(digit, upper, lower, symbol)
        hits == MatchingArms(arms, length)
    IN  IF hits = {}
        THEN FallThrough
        ELSE LET first == CHOOSE i \in hits : \A j \in hits : i <= j
             IN  [value |-> arms[first].value, line |-> arms[first].line]

_check_password_strength(digit, upper, lower, symbol, length) ==
    _check_password_strength_return(digit, upper, lower, symbol, length).value

\* PasswordStrength.strength
any(flags) == \E i \in 1..Len(flags) : flags[i]

strength_flags(password) ==
    [digit |-> any([i \in 1..Len(password) |-> isdigit(password[i])]),
     upper |-> any([i \in 1..Len(password) |-> isupper(password[i])]),
     lower |-> any([i \in 1..Len(password) |-> islower(password[i])]),
     symbol |-> any([i \in 1..Len(password) |-> ~isalnum(password[i])]),
     length |-> Len(password)]

strength(password) ==
    LET f == strength_flags(password)
    IN  _check_password_strength(f.digit, f.upper, f.lower, f.symbol, f.length)

\* ------------------------------------------------------------------------
\* User
\* ------------------------------------------------------------------------
\* Python's None.
None == "None"

\* The User dataclass.
User(username, password, sudo) ==
    [username |-> username, password |-> password, sudo |-> sudo]

\* dict.get(key, default)
get(entry, key, default) == IF key \in DOMAIN entry THEN entry[key] ELSE default

\* The truth value of a str: false exactly for the empty string.
bool(string) == string # ""

\* User.json
json_plain_password_key(self) ==
    ("username" :> self.username) @@ ("password" :> self.password) @@ ("sudo" :> self.sudo)

json(self) ==
    ("username" :> self.username) @@ ("!password" :> self.password) @@ ("sudo" :> self.sudo)

\* The test of User._parse that skips an entry.
skip_entry_if_falsy(username) == username = None \/ username = ""

skip_entry_never(username) == FALSE

skip_entry(username) == username = None

\* User._parse: the for loop, from entry i on, with the list built so far.
RECURSIVE _parse_loop(_, _, _)
_parse_loop(config_users, i, users) ==
    IF i > Len(config_users)
    THEN users
    ELSE LET entry == config_users[i]
             username == get(entry, "username", None)
             password == get(entry, "!password", "")
             sudo == get(entry, "sudo", FALSE)
         IN  IF skip_entry(username)
             THEN _parse_loop(config_users, i + 1, users)
             ELSE _parse_loop(config_users, i + 1,
                              Append(users, User(username, password, sudo)))

_parse(config_users) == _parse_loop(config_users, 1, << >>)

\* User._parse_backwards_compatible; a dict is its keys in insertion order
\* and the value stored under each key.
_parse_backwards_compatible_first_with_password(config_users, sudo) ==
    LET withpw == {i \in 1..Len(config_users.keys) :
                      bool(config_users.items[config_users.keys[i]]["!password"])}
    IN  IF withpw # {}
        THEN LET i == CHOOSE k \in withpw : \A j \in withpw : k <= j
                 username == config_users.keys[i]
             IN  << User(username, config_users.items[username]["!password"], sudo) >>
        ELSE << >>

_parse_backwards_compatible(config_users, sudo) ==
    IF Len(config_users.keys) > 0
    THEN LET username == config_users.keys[1]
             password == config_users.items[username]["!password"]
         IN  IF bool(password)
             THEN << User(username, password, sudo) >>
             ELSE << >>
    ELSE << >>

\* isinstance(value, dict)
isinstance_dict(value) == value.type = "dict"

\* User.parse_arguments
parse_arguments_superusers_first(config_users, config_superusers) ==
    LET fromUsers ==
            IF isinstance_dict(config_users)
            THEN _parse_backwards_compatible(config_users, FALSE)
            ELSE _parse(config_users.items)
        fromSuperusers ==
            IF isinstance_dict(config_superusers)
            THEN _parse_backwards_compatible(config_superusers, TRUE)
            ELSE << >>
    IN  fromSuperusers \o fromUsers

parse_arguments(config_users, config_superusers) ==
    LET users0 == << >>
        users1 ==
            IF isinstance_dict(config_users)
            THEN users0 \o _parse_backwards_compatible(config_users, FALSE)
            ELSE users0 \o _parse(config_users.items)
        users2 ==
            IF isinstance_dict(config_superusers)
            THEN users1 \o _parse_backwards_compatible(config_superusers, TRUE)
            ELSE users1
    IN  users2

\* ------------------------------------------------------------------------
\* The inputs of the calls
\* ------------------------------------------------------------------------
SeqsUpTo(S, n) == UNION {[1..k -> S] : k \in 0..n}

\* A password handed to strength: a head of up to MaxHead free characters
\* followed by one character repeated k times, at most MaxLength characters
\* in all.
StrengthPassword(head, character, k) == head \o [i \in 1..k |-> character]

\* The strings used as usernames and as passwords of configuration input.
Usernames == {"", "ada"}
LegacyUsernames == {"", "ada", "root"}
PasswordValues == {"", "x"}

\* A key of an entry: absent (<< >>) or present with a value (<< value >>).
Field(key, option) == IF option = << >> THEN << >> ELSE key :> option[1]

Entries ==
    { Field("username", u) @@ Field("!password", p) @@ Field("sudo", s) :
        u \in {<< >>} \cup {<< v >> : v \in Usernames \cup {None}},
        p \in {<< >>} \cup {<< v >> : v \in PasswordValues},
        s \in {<< >>} \cup {<< v >> : v \in BOOLEAN} }

Lists == { [type |-> "list", items |-> l] : l \in SeqsUpTo(Entries, MaxUsers) }

Range(f) == {f[x] : x \in DOMAIN f}

Dicts ==
    UNION { { [type |-> "dict", keys |-> ks, items |-> it] :
                it \in [Range(ks) -> {("!password" :> p) : p \in PasswordValues}] } :
            ks \in {q \in SeqsUpTo(LegacyUsernames, MaxLegacy) :
                        \A i, j \in 1..Len(q) : q[i] = q[j] => i = j} }

NoneValue == [type |-> "NoneType"]

Users == { User(u, p, s) : u \in Usernames, p \in PasswordValues, s \in BOOLEAN }

Pending == "pending"

\* ------------------------------------------------------------------------
\* The state machine: a call is chosen, then the called function runs.
\* ------------------------------------------------------------------------
Init ==
    /\ pc = "call"
    /\ \/ /\ op = "color"
          /\ \E c \in PasswordStrength : args = [self |-> c]
       \/ /\ op = "_check_password_strength"
          /\ \E d \in BOOLEAN, u \in BOOLEAN, l \in BOOLEAN, s \in BOOLEAN, n \in 0..MaxLength :
                args = [digit |-> d, upper |-> u, lower |-> l, symbol |-> s, length |-> n]
       \/ /\ op = "strength"
          /\ \E head \in SeqsUpTo(Characters, MaxHead), c \in Characters :
                \E k \in 0..(MaxLength - Len(head)) :
                    args = [password |-> StrengthPassword(head, c, k)]
       \/ /\ op = "json"
          /\ \E r \in Users : args = [self |-> r]
       \/ /\ op = "_parse"
          /\ \E l \in Lists : args = [config_users |-> l.items]
       \/ /\ op = "_parse_backwards_compatible"
          /\ \E d \in Dicts, s \in BOOLEAN : args = [config_users |-> d, sudo |-> s]
       \/ /\ op = "parse_arguments"
          /\ \E cu \in Lists \cup Dicts, cs \in Dicts \cup {NoneValue} :
                args = [config_users |-> cu, config_superusers |-> cs]
    /\ ret = Pending

Return(value) ==
    /\ pc' = "done"
    /\ ret' = value
    /\ UNCHANGED <<op, args>>

Color ==
    /\ pc = "call" /\ op = "color"
    /\ Return(color(args.self))

CheckPasswordStrength ==
    /\ pc = "call" /\ op = "_check_password_strength"
    /\ Return(_check_password_strength_return(
                  args.digit, args.upper, args.lower, args.symbol, args.length))

Strength ==
    /\ pc = "call" /\ op = "strength"
    /\ Return(strength(args.password))

Json ==
    /\ pc = "call" /\ op = "json"
    /\ Return(json(args.self))

Parse ==
    /\ pc = "call" /\ op = "_parse"
    /\ Return(_parse(args.config_users))

ParseBackwardsCompatible ==
    /\ pc = "call" /\ op = "_parse_backwards_compatible"
    /\ Return(_parse_backwards_compatible(args.config_users, args.sudo))

ParseArguments ==
    /\ pc = "call" /\ op = "parse_arguments"
    /\ Return(parse_arguments(args.config_users, args.config_superusers))

Next ==
    \/ Color
    \/ CheckPasswordStrength
    \/ Strength
    \/ Json
    \/ Parse
    \/ ParseBackwardsCompatible
    \/ ParseArguments

Spec == Init /\ [][Next]_vars

\* ------------------------------------------------------------------------
\* Properties
\* ------------------------------------------------------------------------
Done(operation) == pc = "done" /\ op = operation

\* The flags and the length the classifier ran on, for either entry point.
Classified == Done("_check_password_strength") \/ Done("strength")
Flags == IF op = "strength" THEN strength_flags(args.password) ELSE args
Category == IF op = "strength" THEN ret ELSE ret.value

\* The tiers and the length bands as the specification tabulates them.
TierOf(f) ==
    IF f.digit /\ f.upper /\ f.lower /\ f.symbol THEN "A"
    ELSE IF f.digit /\ f.upper /\ f.lower THEN "B"
    ELSE IF f.upper /\ f.lower THEN "C"
    ELSE IF f.lower \/ f.upper THEN "D"
    ELSE "E"

BandLimits == [A |-> <<6, 10, 12>>, B |-> <<6, 10, 13>>, C |-> <<6, 11, 14>>, D |-> <<8, 13, 17>>]

Band(limits, n) ==
    IF n <= limits[1] THEN VERY_WEAK
    ELSE IF n <= limits[2] THEN WEAK
    ELSE IF n <= limits[3] THEN MODERATE
    ELSE STRONG

\* The order of the categories, weakest first.
Rank(category) ==
    CASE category = VERY_WEAK -> 0
      [] category = WEAK -> 1
      [] category = MODERATE -> 2
      [] category = STRONG -> 3

\* C1: in tiers A to D the classifier returns the category of the length
\* band of the first matching tier, as tabulated: A <=6/7-10/11-12/>=13,
\* B <=6/7-10/11-13/>=14, C <=6/7-11/12-14/>=15, D <=8/9-13/14-17/>=18.
C1_TierBands ==
    Classified /\ TierOf(Flags) # "E"
        => Category = Band(BandLimits[TierOf(Flags)], Flags.length)

C1_Witness ==
    /\ Done("_check_password_strength")
    /\ TierOf(args) = "D" /\ args.length = 9 /\ ret.value = WEAK

\* C2: when neither the upper nor the lower flag is set the classifier
\* returns VeryWeak, for every length and every value of the digit and symbol
\* flags; so do the empty password and every password without cased letters.
C2_TierEVeryWeak ==
    Classified /\ ~Flags.upper /\ ~Flags.lower => Category = VERY_WEAK

C2_Witness ==
    /\ Done("strength")
    /\ Len(args.password) = MaxLength
    /\ \A i \in 1..Len(args.password) : args.password[i] = "7"
    /\ ret = VERY_WEAK

\* C3: the classifier is total: every call returns one of the four
\* categories, and in tiers A to D exactly one arm of the match statement
\* matches the length, so the return is that arm's and never the final
\* fall-through statement.
C3_Total ==
    /\ Classified => Category \in PasswordStrength
    /\ Done("_check_password_strength") /\ TierOf(args) # "E"
        => /\ Cardinality(MatchingArms(
                  SelectedArms(args.digit, args.upper, args.lower, args.symbol),
                  args.length)) = 1
           /\ ret.line # FallThrough.line

C3_Witness ==
    /\ Done("_check_password_strength")
    /\ TierOf(args) = "C" /\ args.length = 12 /\ ret.line = 87

\* C9: color maps VeryWeak and Weak to red, Moderate to yellow and Strong to
\* green; the color of a classification result is green exactly when the
\* result is Strong and yellow exactly when it is Moderate.
C9_Color ==
    /\ Done("color") =>
          ret = [c \in PasswordStrength |->
                    IF c = STRONG THEN "green"
                    ELSE IF c = MODERATE THEN "yellow" ELSE "red"][args.self]
    /\ Classified =>
          /\ color(Category) = "green" <=> Category = STRONG
          /\ color(Category) = "yellow" <=> Category = MODERATE

C9_Witness == Done("color") /\ args.self = WEAK /\ ret = "red"

\* C10: the classifier is monotone: with the flags fixed a longer password
\* is never classified lower, and with the length fixed turning one more
\* flag on never lowers the category.
C10_Monotone ==
    Done("_check_password_strength") =>
        /\ Rank(_check_password_strength(args.digit, args.upper, args.lower,
                                         args.symbol, args.length + 1))
              >= Rank(ret.value)
        /\ Rank(_check_password_strength(TRUE, args.upper, args.lower,
                                         args.symbol, args.length)) >= Rank(ret.value)
        /\ Rank(_check_password_strength(args.digit, TRUE, args.lower,
                                         args.symbol, args.length)) >= Rank(ret.value)
        /\ Rank(_check_password_strength(args.digit, args.upper, TRUE,
                                         args.symbol, args.length)) >= Rank(ret.value)
        /\ Rank(_check_password_strength(args.digit, args.upper, args.lower,
                                         TRUE, args.length)) >= Rank(ret.value)

C10_Witness ==
    /\ Done("_check_password_strength")
    /\ TierOf(args) = "C" /\ args.length = 14 /\ ret.value = MODERATE
    /\ _check_password_strength(TRUE, args.upper, args.lower, args.symbol, args.length) = STRONG

\* The record an entry of a current-shape list stands for, as the
\* specification states it.
HasUsername(entry) == "username" \in DOMAIN entry /\ entry["username"] # None

RecordOf(entry) ==
    [username |-> entry["username"],
     password |-> IF "!password" \in DOMAIN entry THEN entry["!password"] ELSE "",
     sudo |-> IF "sudo" \in DOMAIN entry THEN entry["sudo"] ELSE FALSE]

\* The records of a current-shape list: one per entry with a username, in
\* the order of the entries.
RecordsOf(entries, result) ==
    LET kept == {i \in 1..Len(entries) : HasUsername(entries[i])}
        nth(k) == CHOOSE i \in kept : Cardinality({j \in kept : j <= i}) = k
    IN  /\ Len(result) = Cardinality(kept)
        /\ \A k \in 1..Len(result) : result[k] = RecordOf(entries[nth(k)])

\* The records of a legacy-shape mapping: none if it is empty or the
\* password under its first key is empty, else the one of its first key.
LegacyRecords(mapping, sudo) ==
    IF Len(mapping.keys) = 0 \/ mapping.items[mapping.keys[1]]["!password"] = ""
    THEN << >>
    ELSE << [username |-> mapping.keys[1],
             password |-> mapping.items[mapping.keys[1]]["!password"],
             sudo |-> sudo] >>

EmptyDict == [type |-> "dict", keys |-> << >>, items |-> << >>]

\* C4: _parse returns exactly one record per entry whose username is present
\* and not null, in the order of the entries, with the entry's password
\* (empty if absent) and sudo (false if absent); other entries add nothing.
C4_ParseCurrentShape ==
    Done("_parse") => RecordsOf(args.config_users, ret)

C4_Witness ==
    /\ Done("_parse")
    /\ Len(args.config_users) = 2
    /\ ~HasUsername(args.config_users[1])
    /\ HasUsername(args.config_users[2])
    /\ "!password" \notin DOMAIN args.config_users[2]
    /\ ret = << [username |-> args.config_users[2]["username"], password |-> "", sudo |-> TRUE] >>

\* C5: _parse_backwards_compatible consults only the first key: no record
\* for an empty mapping or an empty first password, else exactly the record
\* of the first key; parse_arguments passes sudo false for the users input
\* and true for the superusers input.
C5_LegacyFirstKey ==
    /\ Done("_parse_backwards_compatible")
          => ret = LegacyRecords(args.config_users, args.sudo)
    /\ Done("parse_arguments") /\ args.config_users.type = "dict"
          => ret = LegacyRecords(args.config_users, FALSE)
                   \o (IF args.config_superusers.type = "dict"
                       THEN LegacyRecords(args.config_superusers, TRUE)
                       ELSE << >>)

C5_Witness ==
    /\ Done("_parse_backwards_compatible")
    /\ Len(args.config_users.keys) = 2
    /\ args.config_users.items[args.config_users.keys[1]]["!password"] = ""
    /\ args.config_users.items[args.config_users.keys[2]]["!password"] # ""
    /\ ret = << >>

\* C6: parse_arguments returns the records of the users input followed by
\* the at most one record of the superusers input, which has sudo set; with
\* no superusers input, or an empty one, it returns the users records alone.
C6_Merge ==
    Done("parse_arguments") =>
        LET fromUsers ==
                IF args.config_users.type = "dict"
                THEN _parse_backwards_compatible(args.config_users, FALSE)
                ELSE _parse(args.config_users.items)
            fromSuperusers ==
                IF args.config_superusers.type = "dict"
                THEN _parse_backwards_compatible(args.config_superusers, TRUE)
                ELSE << >>
        IN  /\ Len(fromSuperusers) <= 1
            /\ Len(ret) = Len(fromUsers) + Len(fromSuperusers)
            /\ \A i \in 1..Len(fromUsers) : ret[i] = fromUsers[i]
            /\ fromSuperusers # << >>
                  => ret[Len(ret)] = fromSuperusers[1] /\ ret[Len(ret)].sudo
            /\ args.config_superusers \in {NoneValue, EmptyDict} => ret = fromUsers

C6_Witness ==
    /\ Done("parse_arguments")
    /\ args.config_users.type = "list"
    /\ Len(ret) = 3
    /\ ~ret[1].sudo /\ ~ret[2].sudo /\ ret[3].sudo
    /\ ret[3].username = args.config_superusers.keys[1]

\* C7: serialising a record with json and parsing the one-entry list with
\* an empty superusers mapping gives back exactly that record.
C7_RoundTrip ==
    /\ Done("json")
          => parse_arguments([type |-> "list", items |-> << ret >>], EmptyDict)
                = << args.self >>
    /\ Done("parse_arguments") /\ args.config_superusers = EmptyDict
          /\ args.config_users.type = "list"
          => \A r \in Users : args.config_users.items = << json(r) >> => ret = << r >>

C7_Witness ==
    /\ Done("json")
    /\ args.self.password = "" /\ args.self.username = "ada" /\ args.self.sudo
    /\ DOMAIN ret = {"username", "!password", "sudo"}
    /\ ret["!password"] = ""

\* C8 as stated: every record parse_arguments returns has a non-empty
\* username.
C8_UsernameNonEmpty ==
    Done("parse_arguments") =>
        \A i \in 1..Len(ret) : ret[i].username # None /\ ret[i].username # ""

\* C8 as amended: every record parse_arguments returns has a username that
\* is not null, namely the username of its entry or the first key of its
\* mapping; that username may be the empty string.
C8_UsernameNotNull ==
    Done("parse_arguments") =>
        \A i \in 1..Len(ret) :
            /\ ret[i].username # None
            /\ ret[i].username \in Usernames \cup LegacyUsernames

C8_Witness ==
    /\ Done("parse_arguments")
    /\ args.config_users.type = "list"
    /\ args.config_superusers.type = "dict"
    /\ Len(ret) = 2
    /\ ret[1].username = "" /\ ret[2].username = "" /\ ret[2].password # ""

====
